---- MODULE Spec2Model ----
(***************************************************************************)
(* A model of embed.c: the command-line generator that embeds a list of    *)
(* files into a generated C source (names, data and size tables plus a     *)
(* linear-scan lookup function) and an optional header.                    *)
(*                                                                         *)
(* Strings are sequences of byte codes 1..255 (a C string without its      *)
(* terminator).  A possibly-NULL pointer is an option: NULL is <<>> and a  *)
(* pointer to the string s is <<s>>.  The model is of the POSIX build      *)
(* (PATH_SEPARATOR '/', char signed, fopen(dir, "r") succeeds).            *)
(***************************************************************************)
EXTENDS Integers, Sequences, FiniteSets, TLC

(***************************************************************************)
(* Bounds of the model.                                                    *)
(***************************************************************************)
\* option groups placed before the files in the argument-parsing family
MaxOpts == 3
\* input files per run in the names and data families
MaxFiles == 2
\* bytes per input file
MaxContentLen == 2
\* changes the environment makes to the input files during one run
MaxEnvSteps == 1
\* iterations of the per-file read loop the model follows; a regular file
\* needs at most MaxContentLen + 1, only a failing read goes on
MaxCount == MaxContentLen + 3

(***************************************************************************)
(* Helpers.                                                                *)
(***************************************************************************)
NULL == <<>>
Some(s) == <<s>>
Deref(p) == p[1]

Range(s) == {s[k] : k \in 1..Len(s)}
SeqsUpTo(S, n) == UNION {[1..k -> S] : k \in 0..n}

RECURSIVE Concat(_)
Concat(ss) == IF ss = <<>> THEN <<>> ELSE Head(ss) \o Concat(Tail(ss))

(***************************************************************************)
(* C character conversions.                                                *)
(***************************************************************************)
\* EOF of <stdio.h>, what getc returns at end of file and on a read error
EOF == 0 - 1
\* conversion of an int to (signed) char, as in `char c = getc(infd)`
ToChar(i) == ((i + 128) % 256) - 128
\* the cast (unsigned char)b
ToUChar(c) == c % 256
\* the char at C index i of the string s (its terminator at i = Len(s))
CharAt(s, i) == IF i < Len(s) THEN ToChar(s[i + 1]) ELSE 0

(***************************************************************************)
(* Literals of the generated source.  A literal keeps its base and digits  *)
(* as printed; LiteralValue is what the C compiler reads back.             *)
(***************************************************************************)
\* the digits of n in the given base with no padding
RECURSIVE Digits(_, _)
Digits(n, base) ==
  IF n < base THEN <<n>> ELSE Append(Digits(n \div base, base), n % base)

\* fprintf(fd, "0x%02X", (unsigned char)b): at least two hex digits
output_hex(b) ==
  LET d == Digits(ToUChar(b), 16)
  IN  [base |-> 16, digits |-> IF Len(d) < 2 THEN <<0>> \o d ELSE d]

\* fprintf(fd, "\t%zu", length)
PrintSize(n) == [base |-> 10, digits |-> Digits(n, 10)]

RECURSIVE DigitsValue(_, _)
DigitsValue(d, base) ==
  IF d = <<>> THEN 0
  ELSE DigitsValue(SubSeq(d, 1, Len(d) - 1), base) * base + d[Len(d)]

LiteralValue(l) == DigitsValue(l.digits, l.base)

\* the chars of a (char[]){...} compound literal of the generated source
CharArray(lits) == [k \in 1..Len(lits) |-> ToChar(LiteralValue(lits[k]))]
\* the bytes of the same array
ByteArray(lits) == [k \in 1..Len(lits) |-> ToUChar(CharArray(lits)[k])]

\* the C string held by a char array: the chars before its first zero
RECURSIVE CStr(_)
CStr(a) ==
  IF a = <<>> \/ Head(a) = 0 THEN <<>> ELSE <<Head(a)>> \o CStr(Tail(a))

\* the chars of a string
Chars(s) == [k \in 1..Len(s) |-> ToChar(s[k])]

(***************************************************************************)
(* Strings of the program and of the modelled runs.                        *)
(***************************************************************************)
PATH_SEPARATOR == 47
Dashes == <<45, 45>>
StrSource == <<115, 111, 117, 114, 99, 101>>
StrHeader == <<104, 101, 97, 100, 101, 114>>
StrFunction == <<102, 117, 110, 99, 116, 105, 111, 110>>
StrHelp == <<104, 101, 108, 112>>
StrPreservePaths ==
  <<112, 114, 101, 115, 101, 114, 118, 101, 45, 112, 97, 116, 104, 115>>
\* an option the program does not know: "x"
StrUnknown == <<120>>
Opt(name) == Dashes \o name

\* "s.c", "h.h", "get"
SrcPath == <<115, 46, 99>>
HdrPath == <<104, 46, 104>>
FnName == <<103, 101, 116>>

\* "a", "d/a", "d/e/b" and a one-byte name above 0x7F
PathA == <<97>>
PathDA == <<100, 47, 97>>
PathDEB == <<100, 47, 101, 47, 98>>
PathHigh == <<200>>
Paths == {PathA, PathDA, PathDEB, PathHigh}
PathOrder == <<PathA, PathDA, PathDEB, PathHigh>>

Bytes == {0, 255}
Contents == SeqsUpTo(Bytes, MaxContentLen)

Absent == [kind |-> "absent", content |-> <<>>]
Dir == [kind |-> "dir", content |-> <<>>]
File(c) == [kind |-> "file", content |-> c]
FileStates == {Absent, Dir} \cup {File(c) : c \in Contents}

DefaultFs ==
  [p \in Paths |->
     IF p = PathA THEN File(<<65>>)
     ELSE IF p = PathDA THEN File(<<255, 0>>)
     ELSE IF p = PathDEB THEN File(<<0, 66>>)
     ELSE File(<<>>)]

VARIABLES
  argv,            \* argv[1..argc-1]
  fs,              \* the input files on disk: path -> file state
  unwritable,      \* output paths fopen(.., "w") fails for
  envLeft,         \* changes the environment may still make
  pc,              \* position of the program
  arg,             \* main's loop index
  function_name, source_file, header_file,
  input_files,     \* 0 for NULL, else the index in argv the list starts at
  preserve_paths,
  stderr,          \* the diagnostics printed, in order
  opened,          \* output paths opened for writing (created or truncated)
  src,             \* what was written to the source output
  hdr,             \* what was written to the header output
  file_count,      \* the emitters' loop index
  infd,            \* the open input stream of the data pass
  count,           \* the read loop's index
  cur,             \* literals emitted so far for the current data entry
  contentRead,     \* history: per file, the content held when it was read
  sizeSeen,        \* history: per file, the content held when it was sized
  changed,         \* history: paths the environment changed during the run
  readErrors,      \* history: reads that failed without end-of-file
  nullOps,         \* history: stream operations called on a NULL stream
  openFailed,      \* history: the input file whose fopen returned NULL
  lk               \* the last call of the generated lookup function

vars ==
  <<argv, fs, unwritable, envLeft, pc, arg, function_name, source_file,
    header_file, input_files, preserve_paths, stderr, opened, src, hdr,
    file_count, infd, count, cur, contentRead, sizeSeen, changed,
    readErrors, nullOps, openFailed, lk>>

(***************************************************************************)
(* Initial states: the program about to run on an argument vector, in one  *)
(* of four families of runs.                                               *)
(***************************************************************************)
\* what each option contributes to the command line
OptionGroups ==
  { <<Opt(StrSource), SrcPath>>, <<Opt(StrFunction), FnName>>,
    <<Opt(StrHeader), HdrPath>>, <<Opt(StrPreservePaths)>>,
    <<Opt(StrHelp)>>, <<Opt(StrUnknown)>>,
    <<Opt(StrSource)>>, <<Opt(StrFunction)>>, <<Opt(StrHeader)>> }

\* what follows the options: nothing, files, an option after a file
Tails ==
  { <<>>, <<PathA>>, <<PathA, PathDA>>, <<PathA, Opt(StrPreservePaths)>> }

\* a complete set of options, with or without --preserve-paths
BaseOptions(preserve) ==
  <<Opt(StrSource), SrcPath, Opt(StrFunction), FnName, Opt(StrHeader),
    HdrPath>> \o (IF preserve THEN <<Opt(StrPreservePaths)>> ELSE <<>>)

\* the first k paths of PathOrder
FirstPaths(k) == SubSeq(PathOrder, 1, k)

Start(a, f, u, e) ==
  /\ argv = a
  /\ fs = f
  /\ unwritable = u
  /\ envLeft = e
  /\ pc = "parse"
  /\ arg = 1
  /\ function_name = NULL
  /\ source_file = NULL
  /\ header_file = NULL
  /\ input_files = 0
  /\ preserve_paths = FALSE
  /\ stderr = <<>>
  /\ opened = {}
  /\ src = [includes |-> FALSE, names |-> <<>>, data |-> <<>>,
            sizes |-> <<>>, function |-> NULL]
  /\ hdr = NULL
  /\ file_count = 0
  /\ infd = NULL
  /\ count = 0
  /\ cur = <<>>
  /\ contentRead = <<>>
  /\ sizeSeen = <<>>
  /\ changed = {}
  /\ readErrors = 0
  /\ nullOps = {}
  /\ openFailed = NULL
  /\ lk = NULL

\* any options, in any order, before a short tail; every file present
InitArgs ==
  \E gs \in SeqsUpTo(OptionGroups, MaxOpts), tl \in Tails :
    Start(Concat(gs) \o tl, DefaultFs, {}, 0)

\* complete options, any list of files; every file present
InitNames ==
  \E preserve \in BOOLEAN, fl \in SeqsUpTo(Paths, MaxFiles) :
    /\ fl # <<>>
    /\ Start(BaseOptions(preserve) \o fl, DefaultFs, {}, 0)

\* complete options, the first files of PathOrder in any state on disk
InitData ==
  \E k \in 1..MaxFiles :
    \E f \in [Range(FirstPaths(k)) -> FileStates] :
      Start(BaseOptions(FALSE) \o FirstPaths(k), f, {}, 0)

\* complete options, two files, and an environment that changes them or
\* refuses the output paths
InitEnv ==
  \E u \in SUBSET {SrcPath, HdrPath} :
    Start(BaseOptions(FALSE) \o <<PathA, PathDA>>,
          [p \in {PathA, PathDA} |-> DefaultFs[p]], u,
          IF u = {} THEN MaxEnvSteps ELSE 0)

Init == InitArgs \/ InitNames \/ InitData \/ InitEnv

(***************************************************************************)
(* main: the argument loop and the validation of the configuration.        *)
(***************************************************************************)
Terminal == {"exit_success", "exit_failure", "crash"}

Diag(m, a) == [msg |-> m, arg |-> a]

\* what print_help writes
Usage == Diag("usage", NULL)

\* argv[arg][0] == '-' && argv[arg][1] == '-'
IsOption(a) == CharAt(a, 0) = 45 /\ CharAt(a, 1) = 45

\* the input file list, files[0..] up to argv's terminating NULL
InputList ==
  IF input_files = 0 THEN <<>> ELSE SubSeq(argv, input_files, Len(argv))

\* one iteration of the argument loop, or its end
ParseArg ==
  /\ pc = "parse"
  /\ UNCHANGED <<openFailed, argv, fs, unwritable, envLeft, opened, src, hdr,
                 file_count,
                 infd, count, cur, contentRead, sizeSeen, changed,
                 readErrors, nullOps, lk>>
  /\ IF arg >= Len(argv) + 1
     THEN /\ pc' = "validate"
          /\ UNCHANGED <<arg, function_name, source_file, header_file,
                         input_files, preserve_paths, stderr>>
     ELSE IF IsOption(argv[arg])
     THEN IF input_files # 0
          THEN /\ stderr' = stderr \o <<Diag("options_before_files", NULL),
                                         Usage>>
               /\ pc' = "exit_failure"
               /\ UNCHANGED <<arg, function_name, source_file, header_file,
                              input_files, preserve_paths>>
          ELSE LET arg_name == SubSeq(argv[arg], 3, Len(argv[arg]))
                   arg_value == IF arg # Len(argv) THEN Some(argv[arg + 1])
                                ELSE NULL
               IN  IF arg_name = StrSource
                   THEN /\ source_file' = arg_value
                        /\ arg' = arg + 2
                        /\ UNCHANGED <<pc, function_name, header_file,
                                       input_files, preserve_paths, stderr>>
                   ELSE IF arg_name = StrHeader
                   THEN /\ header_file' = arg_value
                        /\ arg' = arg + 2
                        /\ UNCHANGED <<pc, function_name, source_file,
                                       input_files, preserve_paths, stderr>>
                   ELSE IF arg_name = StrFunction
                   THEN /\ function_name' = arg_value
                        /\ arg' = arg + 2
                        /\ UNCHANGED <<pc, source_file, header_file,
                                       input_files, preserve_paths, stderr>>
                   ELSE IF arg_name = StrHelp
                   THEN /\ stderr' = Append(stderr, Usage)
                        /\ pc' = "exit_failure"
                        /\ UNCHANGED <<arg, function_name, source_file,
                                       header_file, input_files,
                                       preserve_paths>>
                   ELSE IF arg_name = StrPreservePaths
                   THEN /\ preserve_paths' = TRUE
                        /\ arg' = arg + 1
                        /\ UNCHANGED <<pc, function_name, source_file,
                                       header_file, input_files, stderr>>
                   ELSE /\ stderr' = stderr \o
                                     <<Diag("unrecognized", Some(arg_name)),
                                       Usage>>
                        /\ pc' = "exit_failure"
                        /\ UNCHANGED <<arg, function_name, source_file,
                                       header_file, input_files,
                                       preserve_paths>>
     ELSE /\ input_files' = IF input_files = 0 THEN arg ELSE input_files
          /\ pc' = "validate"
          /\ UNCHANGED <<arg, function_name, source_file, header_file,
                         preserve_paths, stderr>>

\* the checks of the configuration after the loop
ValidateConfig_no_function_check ==
  /\ pc = "validate"
  /\ UNCHANGED <<openFailed, argv, fs, unwritable, envLeft, arg,
                 function_name, source_file, header_file, input_files,
                 preserve_paths, opened, src, hdr, file_count, infd, count,
                 cur, contentRead, sizeSeen, changed, readErrors, nullOps, lk>>
  /\ IF source_file = NULL
     THEN /\ stderr' = stderr \o <<Diag("need_source", NULL), Usage>>
          /\ pc' = "exit_failure"
     ELSE /\ stderr' = IF header_file = NULL
                       THEN Append(stderr, Diag("notice_no_header", NULL))
                       ELSE stderr
          /\ pc' = "open_source"

ValidateConfig ==
  /\ pc = "validate"
  /\ UNCHANGED <<openFailed, argv, fs, unwritable, envLeft, arg, function_name,
                 source_file, header_file, input_files, preserve_paths,
                 opened, src, hdr, file_count, infd, count, cur, contentRead,
                 sizeSeen, changed, readErrors, nullOps, lk>>
  /\ IF source_file = NULL
     THEN /\ stderr' = stderr \o <<Diag("need_source", NULL), Usage>>
          /\ pc' = "exit_failure"
     ELSE LET noticed == IF header_file = NULL
                         THEN Append(stderr, Diag("notice_no_header", NULL))
                         ELSE stderr
          IN  IF function_name = NULL
              THEN /\ stderr' = noticed \o <<Diag("need_function", NULL),
                                              Usage>>
                   /\ pc' = "exit_failure"
              ELSE /\ stderr' = noticed
                   /\ pc' = "open_source"

(***************************************************************************)
(* main: opening the two outputs.                                          *)
(***************************************************************************)
\* fopen(source_file, "w") and its check
OpenSource ==
  /\ pc = "open_source"
  /\ UNCHANGED <<openFailed, argv, fs, unwritable, envLeft, arg, function_name,
                 source_file, header_file, input_files, preserve_paths, src,
                 hdr, file_count, infd, count, cur, contentRead, sizeSeen,
                 changed, readErrors, nullOps, lk>>
  /\ IF Deref(source_file) \in unwritable
     THEN /\ stderr' = Append(stderr, Diag("open_source_failed", source_file))
          /\ pc' = "exit_failure"
          /\ UNCHANGED opened
     ELSE /\ opened' = opened \cup {Deref(source_file)}
          /\ pc' = "open_header"
          /\ UNCHANGED stderr

\* what fopen(NULL, "w") may do: the C library returns NULL (glibc fails
\* with EFAULT) or the process faults; it never yields a stream
FopenNullOutcomes == {"returns_null", "fault"}

\* fopen(header_file, "w") and its check, whether header_file is set or
\* not, then the two include lines of the source output
OpenHeader ==
  /\ pc = "open_header"
  /\ UNCHANGED <<openFailed, argv, fs, unwritable, envLeft, arg, function_name,
                 source_file, header_file, input_files, preserve_paths, hdr,
                 file_count, infd, count, cur, contentRead, sizeSeen,
                 changed, readErrors, nullOps, lk>>
  /\ IF header_file = NULL
     THEN \E o \in FopenNullOutcomes :
            /\ UNCHANGED <<opened, src>>
            /\ IF o = "returns_null"
               THEN /\ stderr' = Append(stderr,
                                        Diag("open_header_failed", NULL))
                    /\ pc' = "exit_failure"
               ELSE /\ pc' = "crash"
                    /\ UNCHANGED stderr
     ELSE IF Deref(header_file) \in unwritable
     THEN /\ stderr' = Append(stderr, Diag("open_header_failed", header_file))
          /\ pc' = "exit_failure"
          /\ UNCHANGED <<opened, src>>
     ELSE /\ opened' = opened \cup {Deref(header_file)}
          /\ src' = [src EXCEPT !.includes = TRUE]
          /\ pc' = "gen_list"
          /\ UNCHANGED stderr

(***************************************************************************)
(* The names table.                                                        *)
(***************************************************************************)
\* the loop of plain_name from index i (1-based) with no_path at index np
RECURSIVE PlainNameLoop(_, _, _)
PlainNameLoop(filename, i, np) ==
  IF i > Len(filename) THEN SubSeq(filename, np, Len(filename))
  ELSE IF filename[i] = PATH_SEPARATOR
       THEN PlainNameLoop(filename, i + 1, i + 1)
       ELSE PlainNameLoop(filename, i + 1, np)

plain_name_keeps_separator(filename) ==
  LET n == PlainNameLoop(filename, 1, 1)
  IN  IF Len(n) < Len(filename) THEN <<PATH_SEPARATOR>> \o n ELSE n

plain_name(filename) == PlainNameLoop(filename, 1, 1)

\* the name an input file is embedded under
DisplayName(path, preserve) == IF preserve THEN path ELSE plain_name(path)

\* the literals of one name: each char, then the terminator the loop
\* prints before it breaks
NameLiterals(name) ==
  [k \in 1..Len(name) + 1 |-> output_hex(CharAt(name, k - 1))]

\* an element of a pointer table of the generated source: the address of
\* a compound literal (char[]){...}
ArrayEntry(lits) == [kind |-> "array", lits |-> lits]

\* the closing entry (char[]){0} of the names table
SentinelEntry == ArrayEntry(<<[base |-> 10, digits |-> <<0>>]>>)

\* the entries generate_file_list emits for the list files
generate_file_list(files, preserve) ==
  [k \in 1..Len(files) |->
     ArrayEntry(NameLiterals(DisplayName(files[k], preserve)))]
  \o <<SentinelEntry>>

\* the call of generate_file_list; with input_files NULL its first *files
\* reads through a null pointer and the process faults
GenFileList ==
  /\ pc = "gen_list"
  /\ UNCHANGED <<openFailed, argv, fs, unwritable, envLeft, arg, function_name,
                 source_file, header_file, input_files, preserve_paths,
                 stderr, opened, hdr, file_count, infd, count, cur,
                 contentRead, sizeSeen, changed, readErrors, nullOps, lk>>
  /\ IF input_files = 0
     THEN /\ pc' = "crash"
          /\ UNCHANGED src
     ELSE /\ src' = [src EXCEPT
                       !.names = generate_file_list(InputList, preserve_paths)]
          /\ pc' = "gen_data"

(***************************************************************************)
(* The data table.                                                         *)
(***************************************************************************)
\* the state on disk of a path
FsLookup(path) == IF path \in DOMAIN fs THEN fs[path] ELSE Absent

\* getc on a stream at offset n.  The stream holds what the file held when
\* it was opened (stdio fetches a file shorter than its buffer in one
\* read).  A directory opens for reading and every read of it fails: getc
\* returns EOF with the error indicator set and the end-of-file indicator
\* clear.
Getc(stream, n) ==
  IF stream.kind = "dir" THEN [val |-> EOF, eof |-> FALSE, err |-> TRUE]
  ELSE IF n < Len(stream.content)
       THEN [val |-> stream.content[n + 1], eof |-> FALSE, err |-> FALSE]
       ELSE [val |-> EOF, eof |-> TRUE, err |-> FALSE]

\* the read loop's exit test
LoopBreaks_on_EOF_char(c, eof) == c = EOF

LoopBreaks(c, eof) == eof

\* the head of generate_file_data's loop: the end of the table, or the
\* opening of the next input file
DataOpen ==
  /\ pc = "gen_data"
  /\ UNCHANGED <<argv, fs, unwritable, envLeft, arg, function_name,
                 source_file, header_file, input_files, preserve_paths,
                 opened, src, hdr, sizeSeen, changed, readErrors, nullOps,
                 lk>>
  /\ IF file_count >= Len(InputList)
     THEN /\ pc' = "gen_sizes"
          /\ file_count' = 0
          /\ UNCHANGED <<stderr, infd, count, cur, contentRead, openFailed>>
     ELSE LET input_file == InputList[file_count + 1]
              st == FsLookup(input_file)
          IN  IF st.kind = "absent"
              THEN /\ stderr' = Append(stderr, Diag("open_input_failed",
                                                    Some(input_file)))
                   /\ openFailed' = Some(input_file)
                   /\ pc' = "exit_failure"
                   /\ UNCHANGED <<file_count, infd, count, cur, contentRead>>
              ELSE /\ infd' = Some(st)
                   /\ contentRead' = Append(contentRead, st.content)
                   /\ count' = 0
                   /\ cur' = <<>>
                   /\ pc' = "data_read"
                   /\ UNCHANGED <<stderr, file_count, openFailed>>

\* one iteration of the read loop; on its break the terminator, the end of
\* the entry and fclose
DataRead ==
  /\ pc = "data_read"
  /\ count < MaxCount
  /\ UNCHANGED <<openFailed, argv, fs, unwritable, envLeft, arg, function_name,
                 source_file, header_file, input_files, preserve_paths,
                 stderr, opened, hdr, contentRead, sizeSeen, changed, nullOps,
                 lk>>
  /\ LET r == Getc(Deref(infd), count)
         c == ToChar(r.val)
     IN  IF LoopBreaks(c, r.eof)
         THEN /\ src' = [src EXCEPT !.data =
                           Append(@, ArrayEntry(Append(cur, output_hex(0))))]
              /\ file_count' = file_count + 1
              /\ infd' = NULL
              /\ cur' = <<>>
              /\ count' = 0
              /\ pc' = "gen_data"
              /\ UNCHANGED readErrors
         ELSE /\ cur' = Append(cur, output_hex(c))
              /\ count' = count + 1
              /\ readErrors' = IF r.err THEN readErrors + 1 ELSE readErrors
              /\ UNCHANGED <<src, file_count, infd, pc>>

(***************************************************************************)
(* The size table.                                                         *)
(***************************************************************************)
\* fseek(infd, 0, SEEK_END) then ftell(infd) on an open stream
SeekEndTell(st) == Len(st.content)

\* what fseek on a NULL stream may do: the process faults, or a library
\* that tolerates it returns and the later check of infd is reached
SeekNullOutcomes == {"fault", "returns"}

\* one iteration of generate_file_data_sizes' loop, or its end
SizeStep ==
  /\ pc = "gen_sizes"
  /\ UNCHANGED <<argv, fs, unwritable, envLeft, arg, function_name,
                 source_file, header_file, input_files, preserve_paths,
                 opened, hdr, infd, count, cur, contentRead, changed,
                 readErrors, lk>>
  /\ IF file_count >= Len(InputList)
     THEN /\ pc' = "gen_function"
          /\ UNCHANGED <<stderr, src, file_count, sizeSeen, nullOps,
                         openFailed>>
     ELSE LET input_file == InputList[file_count + 1]
              st == FsLookup(input_file)
          IN  IF st.kind = "absent"
              THEN \E o \in SeekNullOutcomes :
                     /\ UNCHANGED <<src, file_count, sizeSeen>>
                     /\ openFailed' = Some(input_file)
                     /\ IF o = "fault"
                        THEN /\ nullOps' = nullOps \cup {"fseek"}
                             /\ pc' = "crash"
                             /\ UNCHANGED stderr
                        ELSE /\ nullOps' = nullOps \cup {"fseek", "ftell"}
                             /\ stderr' = Append(stderr,
                                                 Diag("open_input_failed",
                                                      Some(input_file)))
                             /\ pc' = "exit_failure"
              ELSE /\ src' = [src EXCEPT !.sizes =
                                Append(@, PrintSize(SeekEndTell(st)))]
                   /\ sizeSeen' = Append(sizeSeen, st.content)
                   /\ file_count' = file_count + 1
                   /\ UNCHANGED <<stderr, pc, nullOps, openFailed>>

(***************************************************************************)
(* The lookup function's text and the header.                              *)
(***************************************************************************)
\* generate_function, the closing newline and fclose(source_fd)
GenFunction ==
  /\ pc = "gen_function"
  /\ src' = [src EXCEPT !.function = function_name]
  /\ pc' = "gen_header"
  /\ UNCHANGED <<openFailed, argv, fs, unwritable, envLeft, arg, function_name,
                 source_file, header_file, input_files, preserve_paths,
                 stderr, opened, hdr, file_count, infd, count, cur,
                 contentRead, sizeSeen, changed, readErrors, nullOps, lk>>

\* the include-guard token of a header path
generate_define_name(filename) ==
  [k \in 1..Len(filename) |->
     LET c == ToChar(filename[k])
     IN  IF c >= 65 /\ c <= 90 THEN ToUChar(c)
         ELSE IF c >= 97 /\ c <= 122 THEN ToUChar(c - (97 - 65))
         ELSE 95]

\* the header, when --header was given, and the successful return
GenHeader ==
  /\ pc = "gen_header"
  /\ hdr' = IF header_file # NULL
            THEN Some([guard |-> <<95>>
                                 \o generate_define_name(Deref(header_file))
                                 \o <<95>>,
                       declares |-> Deref(function_name)])
            ELSE hdr
  /\ pc' = "exit_success"
  /\ UNCHANGED <<openFailed, argv, fs, unwritable, envLeft, arg, function_name,
                 source_file, header_file, input_files, preserve_paths,
                 stderr, opened, src, file_count, infd, count, cur,
                 contentRead, sizeSeen, changed, readErrors, nullOps, lk>>

(***************************************************************************)
(* The generated lookup function, run by a program built with the          *)
(* generated source.                                                       *)
(***************************************************************************)
\* 0 == strcmp(a, b) on two char arrays
StrEqual_first_char(a, b) ==
  (IF a = <<>> THEN 0 ELSE Head(a)) = (IF b = <<>> THEN 0 ELSE Head(b))

StrEqual(a, b) == CStr(a) = CStr(b)

\* EMBEDDED_FILE_NAMES[i] != 0: an element that is the address of a
\* compound literal is not a null pointer
IsNullPointer(entry) == entry.kind = "null"

\* the for loop from element k (1-based): it ends at a null element, at
\* the first element equal to filename, or by leaving the table
RECURSIVE ScanFrom(_, _, _)
ScanFrom(names, filename, k) ==
  IF k > Len(names) THEN [end |-> "past_table", idx |-> k]
  ELSE IF IsNullPointer(names[k]) THEN [end |-> "null_element", idx |-> k]
  ELSE IF StrEqual(Chars(filename), CharArray(names[k].lits))
       THEN [end |-> "match", idx |-> k]
       ELSE ScanFrom(names, filename, k + 1)

\* values a word read outside a table may hold
IndeterminateWords == {0, 1}

LookupResult(r, i, w, v, o) ==
  [ret |-> r, idx |-> i, lenWritten |-> w, lenVal |-> v, oob |-> o]

\* what a call may do.  A read outside a table is undefined: past the
\* names table the word read is zero (the loop ends) or the process
\* faults; outside the size and data tables the words read are arbitrary.
LookupOutcomes(out, filename, wantLen) ==
  LET s == ScanFrom(out.names, filename, 1)
      inSizes == s.idx <= Len(out.sizes)
      inData == s.idx <= Len(out.data)
  IN  IF s.end = "null_element"
      THEN {LookupResult("null", 0, FALSE, 0, FALSE)}
      ELSE IF s.end = "past_table"
      THEN {LookupResult("null", 0, FALSE, 0, TRUE),
            LookupResult("fault", 0, FALSE, 0, TRUE)}
      ELSE {LookupResult(IF inData THEN "data"
                         ELSE IF g = 0 THEN "null" ELSE "wild",
                         s.idx, wantLen,
                         IF ~wantLen THEN 0
                         ELSE IF inSizes THEN LiteralValue(out.sizes[s.idx])
                         ELSE g,
                         ~inData \/ (wantLen /\ ~inSizes))
              : g \in IndeterminateWords}

\* the names the lookup function is called with
LookupNames ==
  {<<>>, <<122>>} \cup Paths \cup {plain_name(p) : p \in Paths}

\* a call of the generated function after a successful run.  The function
\* reads the tables and keeps nothing, so one call per run is followed.
Lookup ==
  /\ pc = "exit_success"
  /\ src.function # NULL
  /\ lk = NULL
  /\ \E filename \in LookupNames, wantLen \in BOOLEAN :
       \E r \in LookupOutcomes(src, filename, wantLen) :
         lk' = Some([filename |-> filename, wantLen |-> wantLen, res |-> r])
  /\ UNCHANGED <<openFailed, argv, fs, unwritable, envLeft, pc, arg,
                 function_name,
                 source_file, header_file, input_files, preserve_paths,
                 stderr, opened, src, hdr, file_count, infd, count, cur,
                 contentRead, sizeSeen, changed, readErrors, nullOps>>

(***************************************************************************)
(* The environment: another process removes or rewrites an input file      *)
(* while the program runs.                                                 *)
(***************************************************************************)
EnvChange(p, st) ==
  /\ envLeft > 0
  /\ pc \notin Terminal
  /\ fs[p] # st
  /\ fs' = [fs EXCEPT ![p] = st]
  /\ changed' = changed \cup {p}
  /\ envLeft' = envLeft - 1
  /\ UNCHANGED <<openFailed, argv, unwritable, pc, arg, function_name,
                 source_file,
                 header_file, input_files, preserve_paths, stderr, opened,
                 src, hdr, file_count, infd, count, cur, contentRead,
                 sizeSeen, readErrors, nullOps, lk>>

EnvRemove == \E p \in DOMAIN fs : EnvChange(p, Absent)

EnvWrite == \E p \in DOMAIN fs, c \in Contents : EnvChange(p, File(c))

(***************************************************************************)
(* The specification.                                                      *)
(***************************************************************************)
Next ==
  \/ ParseArg
  \/ ValidateConfig
  \/ OpenSource
  \/ OpenHeader
  \/ GenFileList
  \/ DataOpen
  \/ DataRead
  \/ SizeStep
  \/ GenFunction
  \/ GenHeader
  \/ Lookup
  \/ EnvRemove
  \/ EnvWrite

Spec == Init /\ [][Next]_vars

(***************************************************************************)
(* What the claims speak of.                                               *)
(***************************************************************************)
\* the real entries of the emitted names table, as C strings
TableNames ==
  [k \in 1..Len(src.names) - 1 |-> CStr(CharArray(src.names[k].lits))]

\* the payload of data entry k without its last literal, as bytes
Payload(k) ==
  ByteArray(SubSeq(src.data[k].lits, 1, Len(src.data[k].lits) - 1))

\* the last literal of data entry k
Terminator(k) == LiteralValue(src.data[k].lits[Len(src.data[k].lits)])

\* the part of path after its last separator, the whole of it without one
FinalSegment(path) ==
  CHOOSE s \in {SubSeq(path, k, Len(path)) : k \in 1..Len(path) + 1} :
    /\ PATH_SEPARATOR \notin Range(s)
    /\ Len(s) = Len(path) \/ path[Len(path) - Len(s)] = PATH_SEPARATOR

\* the name the specification gives input file i
ExpectedName(i) ==
  IF preserve_paths THEN InputList[i] ELSE FinalSegment(InputList[i])

\* option n is on the command line and an argument follows it
GivenWithValue(n) == \E k \in 1..Len(argv) - 1 : argv[k] = Opt(n)

RequiredMissing == ~GivenWithValue(StrSource) \/ ~GivenWithValue(StrFunction)

\* the source output as the program leaves it before it opens it
NoOutput ==
  /\ opened = {}
  /\ src = [includes |-> FALSE, names |-> <<>>, data |-> <<>>,
            sizes |-> <<>>, function |-> NULL]
  /\ hdr = NULL

\* every input file is a regular file and stays as it is
InputsReadable ==
  /\ changed = {}
  /\ envLeft = 0
  /\ \A k \in 1..Len(InputList) : FsLookup(InputList[k]).kind = "file"

\* the source output holds the three tables and the lookup function
SourceComplete ==
  /\ src.includes
  /\ Len(src.names) = Len(InputList) + 1
  /\ Len(src.data) = Len(InputList)
  /\ Len(src.sizes) = Len(InputList)
  /\ src.function = function_name

(***************************************************************************)
(* C1.                                                                     *)
(***************************************************************************)
\* C1 as stated: a call of the lookup function with the display name held
\* at index i of the names table returns the payload of index i and, with
\* a length slot, writes the size of index i; for every input list, also
\* one in which two inputs have the same display name.
C1_ReturnsSameIndex ==
  lk # NULL =>
    \A i \in 1..Len(src.names) - 1 :
      TableNames[i] = Chars(Deref(lk).filename) =>
        /\ Deref(lk).res.ret = "data"
        /\ src.data[Deref(lk).res.idx] = src.data[i]
        /\ Deref(lk).wantLen =>
             /\ Deref(lk).res.lenWritten
             /\ Deref(lk).res.lenVal = LiteralValue(src.sizes[i])

\* C1 amended: the call returns the payload, and writes the size, of the
\* FIRST index whose display name equals the one held at index i (index i
\* itself when no earlier entry has that name); it reads inside the tables
\* and writes the length slot exactly when one is supplied.
C1_ReturnsFirstIndex ==
  lk # NULL =>
    \A i \in 1..Len(src.names) - 1 :
      TableNames[i] = Chars(Deref(lk).filename) =>
        LET r == Deref(lk).res
        IN  /\ r.ret = "data"
            /\ r.idx \in 1..i
            /\ TableNames[r.idx] = TableNames[i]
            /\ \A j \in 1..r.idx - 1 : TableNames[j] # TableNames[i]
            /\ ~r.oob
            /\ r.lenWritten = Deref(lk).wantLen
            /\ Deref(lk).wantLen => r.lenVal = LiteralValue(src.sizes[r.idx])

\* a call with a length slot for a name two entries hold, with distinct
\* payloads
C1_Witness ==
  /\ lk # NULL
  /\ Deref(lk).wantLen
  /\ Len(src.names) = 3
  /\ TableNames[1] = TableNames[2]
  /\ TableNames[2] = Chars(Deref(lk).filename)
  /\ src.data[1] # src.data[2]

(***************************************************************************)
(* C2.                                                                     *)
(***************************************************************************)
\* C2: a call with a name that is the display name of no input file ends
\* at the sentinel entry, returns NULL, leaves the length slot alone and
\* reads no table outside its emitted entries.
C2_AbsentNameNotFound ==
  (/\ lk # NULL
   /\ \A k \in 1..Len(InputList) :
        DisplayName(InputList[k], preserve_paths) # Deref(lk).filename)
  => /\ Deref(lk).res.ret = "null"
     /\ ~Deref(lk).res.lenWritten
     /\ ~Deref(lk).res.oob

(***************************************************************************)
(* C3.                                                                     *)
(***************************************************************************)
\* C3 as stated: after a run that completes, every data entry without its
\* terminator is the content the file had when it was read, and the size
\* entry of the same index is the number of bytes of that content.
C3_DataAndSizeOfContentRead ==
  pc = "exit_success" =>
    /\ Len(src.data) = Len(InputList)
    /\ Len(src.sizes) = Len(InputList)
    /\ \A i \in 1..Len(InputList) :
         /\ Payload(i) = contentRead[i]
         /\ Terminator(i) = 0
         /\ LiteralValue(src.sizes[i]) = Len(contentRead[i])

\* C3 amended: every data entry emitted is, without its zero terminator,
\* the content the file had when the data pass read it; after a run that
\* completes the size entry of the same index is the number of bytes the
\* file held when the size pass reopened it, which is the number of bytes
\* of the content read when the file was not changed during the run.
C3_DataOfContentRead_SizeOfReopen ==
  /\ \A i \in 1..Len(src.data) :
       /\ Payload(i) = contentRead[i]
       /\ Terminator(i) = 0
  /\ pc = "exit_success" =>
       /\ Len(src.data) = Len(InputList)
       /\ Len(src.sizes) = Len(InputList)
       /\ \A i \in 1..Len(InputList) :
            /\ LiteralValue(src.sizes[i]) = Len(sizeSeen[i])
            /\ InputList[i] \notin changed =>
                 LiteralValue(src.sizes[i]) = Len(contentRead[i])

\* a completed run that embedded a file holding 0xFF and a zero byte,
\* another holding 0xFF alone, unchanged
C3_Witness ==
  /\ pc = "exit_success"
  /\ changed = {}
  /\ Len(InputList) = 2
  /\ contentRead[1] = <<255, 0>>
  /\ contentRead[2] = <<255>>

(***************************************************************************)
(* C4.                                                                     *)
(***************************************************************************)
\* C4: the names table holds, before its sentinel, one name per input file
\* in the order of the input list: the path as given with
\* --preserve-paths, else what follows its last separator.
C4_NamesFollowInputList ==
  src.names # <<>> =>
    /\ Len(src.names) = Len(InputList) + 1
    /\ CharArray(src.names[Len(src.names)].lits) = <<0>>
    /\ \A i \in 1..Len(InputList) :
         /\ TableNames[i] = Chars(ExpectedName(i))
         /\ Len(src.names[i].lits) = Len(ExpectedName(i)) + 1

\* a table emitted without --preserve-paths for two files, one of them
\* under two directories
C4_Witness ==
  /\ src.names # <<>>
  /\ ~preserve_paths
  /\ Len(InputList) = 2
  /\ InputList[2] = PathDEB

(***************************************************************************)
(* C5.                                                                     *)
(***************************************************************************)
\* C5: with --source and --function given and --header omitted the run
\* goes on through every emission step, writes the complete source, no
\* header, and exits with success.
C5_HeaderOmittedRunSucceeds ==
  (/\ header_file = NULL
   /\ source_file # NULL
   /\ function_name # NULL
   /\ input_files # 0
   /\ InputsReadable
   /\ unwritable = {}
   /\ pc \in Terminal)
  => /\ pc = "exit_success"
     /\ SourceComplete
     /\ hdr = NULL

(***************************************************************************)
(* C6.                                                                     *)
(***************************************************************************)
\* C6: when --function or --source is missing (absent, or last with no
\* value) the run ends in the failure exit and at no point opens, creates
\* or writes an output.
C6_MissingRequiredTouchesNothing ==
  RequiredMissing =>
    /\ pc \in {"parse", "validate", "exit_failure"}
    /\ NoOutput

\* --source was given, --function was not, and the run has ended
C6_Witness ==
  /\ RequiredMissing
  /\ source_file # NULL
  /\ pc = "exit_failure"
  /\ Len(stderr) >= 2
  /\ stderr[Len(stderr) - 1].msg = "need_function"

(***************************************************************************)
(* C7.                                                                     *)
(***************************************************************************)
\* C7: when an argument of option syntax follows the first input file the
\* run exits with failure and emits no table entry for that argument.
C7_OptionAfterFileRejected ==
  (/\ input_files # 0
   /\ \E k \in input_files + 1..Len(argv) : IsOption(argv[k]))
  => /\ pc # "exit_success"
     /\ \A i \in 1..Len(src.names) - 1 :
          ~(/\ Len(TableNames[i]) >= 2
            /\ TableNames[i][1] = 45
            /\ TableNames[i][2] = 45)

(***************************************************************************)
(* C8.                                                                     *)
(***************************************************************************)
\* C8: when an input file cannot be opened, in the data pass or in the
\* size pass, no operation is performed on the unopened stream, the
\* diagnostic naming the file is printed and the run exits non-zero.
C8_OpenFailureHandled ==
  openFailed # NULL =>
    /\ nullOps = {}
    /\ pc = "exit_failure"
    /\ stderr # <<>>
    /\ stderr[Len(stderr)] = Diag("open_input_failed", openFailed)

(***************************************************************************)
(* C9.                                                                     *)
(***************************************************************************)
\* C9: a read that fails without end-of-file is fatal to the run and is
\* not retried, so the read loop of every opened file ends.
C9_ReadFailureIsFatal == readErrors > 0 => pc = "exit_failure"

(***************************************************************************)
(* C10.                                                                    *)
(***************************************************************************)
\* C10: a run with valid options and no input file does not fault; it
\* emits a names table of the sentinel alone, empty data and size tables,
\* and exits with success.
C10_NoInputFilesSucceeds ==
  (/\ input_files = 0
   /\ header_file # NULL
   /\ Deref(header_file) \in opened)
  => /\ pc # "crash"
     /\ pc \in Terminal =>
          /\ pc = "exit_success"
          /\ src.names = <<SentinelEntry>>
          /\ src.data = <<>>
          /\ src.sizes = <<>>

====
